---- MODULE Spec2Model ----
(***************************************************************************)
(* A model of framework/wazuh/core/stats.py: the readers of the bucket     *)
(* files (hourly_, weekly_), the parser of the daily totals log (totals_), *)
(* the parser of a daemon's key="value" file (get_daemons_stats_), the     *)
(* per-agent fan-out (get_agents_component_stats_json_) and the control    *)
(* socket round trip (get_daemons_stats_from_socket).                      *)
(*                                                                         *)
(* Python strings are sequences of one-character strings, so that split,   *)
(* slicing, zfill, int() and float() are computed and not assumed.         *)
(***************************************************************************)
EXTENDS Integers, Sequences, FiniteSets, TLC

VARIABLES
    \* totals_
    totals_src,      \* the lines written to the totals log, as descriptors
    totals_file,     \* the totals log on disk: [exists, text]
    totals_ret,      \* what totals_ returned or raised
    \* get_daemons_stats_
    daemons_src,     \* the lines written to the daemon's file, as descriptors
    daemons_file,    \* the daemon's file on disk: [exists, text]
    daemons_ret,     \* what get_daemons_stats_ returned or raised
    \* hourly_ and weekly_
    avg_odd,         \* the bucket files that differ from the others
    avg_mode,        \* how they differ
    hourly_ret,      \* what hourly_ returned
    weekly_ret,      \* what weekly_ returned
    \* get_agents_component_stats_json_
    agent_list,      \* the argument
    system_agents,   \* agent.get_agents_info()
    a_pc,            \* position of the call
    a_i,             \* index of the next agent_id of the loop
    failed,          \* local 'failed'
    affected,        \* local 'affected'
    calls,           \* what happened at each position, in order
    \* get_daemons_stats_from_socket
    pc,              \* position of the call
    agent_id,        \* the argument
    daemon,          \* the argument
    dest_socket,     \* local 'dest_socket'
    command,         \* local 'command'
    sock,            \* the WazuhSocket s: "none", "open" or "closed"
    io,              \* the socket operations performed, in order
    rec_msg,         \* local 'rec_msg'
    outcome          \* what the call returned or raised

totalsVars == <<totals_src, totals_file, totals_ret>>
daemonsVars == <<daemons_src, daemons_file, daemons_ret>>
avgVars == <<avg_odd, avg_mode, hourly_ret, weekly_ret>>
agentsVars == <<agent_list, system_agents, a_pc, a_i, failed, affected, calls>>
socketVars == <<pc, agent_id, daemon, dest_socket, command, sock, io, rec_msg, outcome>>
vars == <<totalsVars, daemonsVars, avgVars, agentsVars, socketVars>>

(***************************************************************************)
(* Bounds of the model.                                                    *)
(***************************************************************************)
MaxTotalsLines == 4
MaxDaemonLines == 3
MaxRun == 2
MaxAgents == 3

(***************************************************************************)
(* Python strings.                                                         *)
(***************************************************************************)
NL == "\n"
Digits == <<"0", "1", "2", "3", "4", "5", "6", "7", "8", "9">>
DigitSet == {Digits[i] : i \in 1..10}
DigitVal(c) == (CHOOSE i \in 1..10 : Digits[i] = c) - 1
\* The ASCII characters int() and float() skip around a number: space, \n,
\* \t, \r, \x0b and \x0c.
VT == ""
Whitespace == {" ", NL, "\t", "\r", VT, "\f"}

\* str(n) for a natural number n
RECURSIVE Dec(_)
Dec(n) == IF n < 10 THEN <<Digits[n + 1]>>
          ELSE Dec(n \div 10) \o <<Digits[(n % 10) + 1]>>

\* sep.join(parts)
RECURSIVE Join(_, _)
Join(parts, sep) ==
    IF parts = <<>> THEN <<>>
    ELSE IF Len(parts) = 1 THEN parts[1]
    ELSE parts[1] \o sep \o Join(Tail(parts), sep)

OccursAt(s, sep, i) ==
    /\ i + Len(sep) - 1 <= Len(s)
    /\ SubSeq(s, i, i + Len(sep) - 1) = sep

\* s.split(sep): every occurrence of sep, left to right, not overlapping
RECURSIVE SplitFrom(_, _, _, _, _)
SplitFrom(s, sep, i, cur, acc) ==
    IF i > Len(s) THEN Append(acc, cur)
    ELSE IF OccursAt(s, sep, i)
         THEN SplitFrom(s, sep, i + Len(sep), <<>>, Append(acc, cur))
         ELSE SplitFrom(s, sep, i + 1, Append(cur, s[i]), acc)
Split(s, sep) == SplitFrom(s, sep, 1, <<>>, <<>>)

\* s.split(sep, 1): the first occurrence of sep only
SplitOnce(s, sep) ==
    IF \E i \in 1..Len(s) : OccursAt(s, sep, i)
    THEN LET i == CHOOSE k \in 1..Len(s) :
                      /\ OccursAt(s, sep, k)
                      /\ \A j \in 1..(k - 1) : ~OccursAt(s, sep, j)
         IN <<SubSeq(s, 1, i - 1), SubSeq(s, i + Len(sep), Len(s))>>
    ELSE <<s>>

\* f.readlines() of a file opened with mode='r': the lines of a text, each
\* keeping its newline.  Text mode reads with universal newlines: "\r\n"
\* and a lone "\r" end a line as "\n" does and are handed over as "\n".
RECURSIVE ReadLinesFrom(_, _, _, _)
ReadLinesFrom(text, i, cur, acc) ==
    IF i > Len(text) THEN (IF cur = <<>> THEN acc ELSE Append(acc, cur))
    ELSE IF text[i] = "\r" /\ i < Len(text) /\ text[i + 1] = NL
         THEN ReadLinesFrom(text, i + 2, <<>>, Append(acc, Append(cur, NL)))
    ELSE IF text[i] \in {NL, "\r"}
         THEN ReadLinesFrom(text, i + 1, <<>>, Append(acc, Append(cur, NL)))
         ELSE ReadLinesFrom(text, i + 1, Append(cur, text[i]), acc)
ReadLines(text) == ReadLinesFrom(text, 1, <<>>, <<>>)

\* s.strip()
RECURSIVE LStrip(_)
LStrip(s) == IF s # <<>> /\ Head(s) \in Whitespace THEN LStrip(Tail(s)) ELSE s
RECURSIVE RStrip(_)
RStrip(s) == IF s # <<>> /\ s[Len(s)] \in Whitespace
             THEN RStrip(SubSeq(s, 1, Len(s) - 1)) ELSE s
Strip(s) == RStrip(LStrip(s))

RECURSIVE DigitsValue(_)
DigitsValue(ds) == IF ds = <<>> THEN 0
                   ELSE 10 * DigitsValue(SubSeq(ds, 1, Len(ds) - 1)) + DigitVal(ds[Len(ds)])

AllDigits(s) == \A i \in 1..Len(s) : s[i] \in DigitSet

\* A numeric literal's digits: one or more digits, where single underscores
\* may stand between two digits ("1_0", never "_1", "1_" or "1__0").
DigitGroup(s) ==
    LET groups == Split(s, <<"_">>)
    IN \A i \in 1..Len(groups) : groups[i] # <<>> /\ AllDigits(groups[i])
IsDigit(c) == c \in DigitSet
\* the digits of a group, its underscores dropped
GroupDigits(s) == SelectSeq(s, IsDigit)

\* int(s) on ASCII text: surrounding whitespace, an optional sign, then
\* digits that single underscores may separate; anything else is a
\* ValueError (ok = FALSE)
ParseInt(s) ==
    LET t == Strip(s)
        signed == t # <<>> /\ t[1] \in {"+", "-"}
        body == IF signed THEN Tail(t) ELSE t
        mag == DigitsValue(GroupDigits(body))
    IN IF DigitGroup(body)
       THEN [ok |-> TRUE, v |-> IF signed /\ t[1] = "-" THEN 0 - mag ELSE mag]
       ELSE [ok |-> FALSE, v |-> 0]

(***************************************************************************)
(* What a call does: return a value or raise an exception.                 *)
(***************************************************************************)
NotCalled == [kind |-> "none"]
Raise(exc, code, msg) == [kind |-> "raise", exc |-> exc, code |-> code, msg |-> msg]

\* The state of the functions a specification does not exercise.
DaemonsIdle ==
    /\ daemons_src = <<>>
    /\ daemons_file = [exists |-> FALSE, text |-> <<>>]
    /\ daemons_ret = NotCalled
AvgIdle ==
    /\ avg_odd = {} /\ avg_mode = "idle"
    /\ hourly_ret = NotCalled /\ weekly_ret = NotCalled
AgentsIdle ==
    /\ agent_list = <<>> /\ system_agents = {}
    /\ a_pc = "idle" /\ a_i = 0
    /\ failed = <<>> /\ affected = <<>> /\ calls = <<>>
SocketIdle ==
    /\ pc = "idle" /\ agent_id = <<>> /\ daemon = <<>>
    /\ dest_socket = <<>> /\ command = <<>>
    /\ sock = "none" /\ io = <<>> /\ rec_msg = <<>> /\ outcome = NotCalled

(***************************************************************************)
(* totals_                                                                 *)
(***************************************************************************)
TotalsReturn(f, recs) == [kind |-> "return", failed |-> f, affected |-> recs]
ValueError == Raise("ValueError", 0, <<>>)

\* line 113: the field counts of a line that is skipped
SkipsLine(n) == n \in {0, 1}

\* line 116: what a malformed line makes the call return
MalformedResult_dropsPartial(recs) == TotalsReturn(TRUE, <<>>)
MalformedResult(recs) == TotalsReturn(TRUE, recs)

\* line 119: the pending alerts after an hour record is closed
AlertsAfterClosing_kept(alerts) == alerts
AlertsAfterClosing(alerts) == <<>>

\* lines 106-121: the loop over the lines of the file
RECURSIVE TotalsLoop(_, _, _, _)
TotalsLoop(stats, i, alerts, recs) ==
    IF i > Len(stats) THEN TotalsReturn(FALSE, recs)
    ELSE
      LET line == stats[i]
          data == Split(line, <<"-">>)
      IN IF Len(data) = 4
         THEN LET sigid == ParseInt(data[2])
                  level == ParseInt(data[3])
                  times == ParseInt(data[4])
              IN IF sigid.ok /\ level.ok /\ times.ok
                 THEN TotalsLoop(stats, i + 1,
                                 Append(alerts, [sigid |-> sigid.v, level |-> level.v,
                                                 times |-> times.v]),
                                 recs)
                 ELSE ValueError
         ELSE LET data2 == Split(line, <<"-", "-">>)
              IN IF Len(data2) # 5
                 THEN IF SkipsLine(Len(data2))
                      THEN TotalsLoop(stats, i + 1, alerts, recs)
                      ELSE MalformedResult(recs)
                 ELSE LET n == [k \in 1..5 |-> ParseInt(data2[k])]
                      IN IF \A k \in 1..5 : n[k].ok
                         THEN TotalsLoop(stats, i + 1, AlertsAfterClosing(alerts),
                                         Append(recs, [hour |-> n[1].v, alerts |-> alerts,
                                                       totalAlerts |-> n[2].v,
                                                       events |-> n[3].v,
                                                       syscheck |-> n[4].v,
                                                       firewall |-> n[5].v]))
                         ELSE ValueError

\* lines 95-121
totals_(file) ==
    IF ~file.exists THEN Raise("WazuhError", 1308, <<>>)
    ELSE TotalsLoop(ReadLines(file.text), 1, <<>>, <<>>)

\* The lines a totals log is written from: a kind and its numeric fields.
TLine(kind, f) == [kind |-> kind, f |-> f]
RECURSIVE DecAll(_)
DecAll(f) == IF f = <<>> THEN <<>> ELSE <<Dec(Head(f))>> \o DecAll(Tail(f))
RenderTotalsLine(l) ==
    CASE l.kind = "alert" -> Join(DecAll(l.f), <<"-">>)
      [] l.kind = "closing" -> Join(DecAll(l.f), <<"-", "-">>)
      [] l.kind = "fields" -> Join(DecAll(l.f), <<"-", "-">>)
      [] l.kind = "blank" -> <<>>
      [] l.kind = "badalert" -> <<"1", "-", "x", "-", "2", "-", "3">>

TotalsLines ==
    { TLine("alert", <<1, 5, 3, 2>>), TLine("alert", <<10, 31, 7, 1>>),
      TLine("closing", <<1, 4, 9, 0, 2>>), TLine("closing", <<10, 1, 12, 3, 0>>),
      TLine("blank", <<>>), TLine("badalert", <<>>),
      TLine("fields", <<1, 2>>), TLine("fields", <<1, 2, 3>>),
      TLine("fields", <<1, 2, 3, 4>>), TLine("fields", <<1, 2, 3, 4, 5, 6>>) }

RECURSIVE SeqsUpTo(_, _)
SeqsUpTo(S, n) ==
    IF n = 0 THEN {<<>>}
    ELSE LET shorter == SeqsUpTo(S, n - 1)
         IN shorter \cup {Append(s, x) : s \in {t \in shorter : Len(t) = n - 1}, x \in S}

\* the text of a file written line by line; the last line ends with a
\* newline or not
RECURSIVE RenderLines(_, _)
RenderLines(lines, finalNL) ==
    IF lines = <<>> THEN <<>>
    ELSE IF Len(lines) = 1 THEN lines[1] \o (IF finalNL THEN <<NL>> ELSE <<>>)
    ELSE lines[1] \o <<NL>> \o RenderLines(Tail(lines), finalNL)
RenderTotals(src, finalNL) ==
    RenderLines([i \in 1..Len(src) |-> RenderTotalsLine(src[i])], finalNL)

TotalsInit ==
    /\ totals_src \in SeqsUpTo(TotalsLines, MaxTotalsLines)
    /\ \/ \E nl \in BOOLEAN :
             totals_file = [exists |-> TRUE,
                            text |-> RenderTotals(totals_src, nl)]
       \/ /\ totals_src = <<>>
          /\ totals_file = [exists |-> FALSE, text |-> <<>>]
    /\ totals_ret = NotCalled
TotalsIdle ==
    /\ totals_src = <<>>
    /\ totals_file = [exists |-> FALSE, text |-> <<>>]
    /\ totals_ret = NotCalled

CallTotals ==
    /\ totals_ret = NotCalled
    /\ totals_ret' = totals_(totals_file)
    /\ UNCHANGED <<totals_src, totals_file>>
    /\ UNCHANGED <<daemonsVars, avgVars, agentsVars, socketVars>>

NextTotals == CallTotals

(***************************************************************************)
(* The totals log as it was written, for the claims about totals_.         *)
(***************************************************************************)
KindsOf(src) == {src[i].kind : i \in 1..Len(src)}
AlertOf(l) == [sigid |-> l.f[2], level |-> l.f[3], times |-> l.f[4]]
ClosingIdx(src) == {i \in 1..Len(src) : src[i].kind = "closing"}
NthClosing(src, j) ==
    CHOOSE i \in ClosingIdx(src) : Cardinality({c \in ClosingIdx(src) : c <= i}) = j
RECURSIVE MapAlerts(_)
MapAlerts(ls) == IF ls = <<>> THEN <<>> ELSE <<AlertOf(Head(ls))>> \o MapAlerts(Tail(ls))
IsAlertLine(l) == l.kind = "alert"
\* the alert lines strictly between positions q and p, in file order
AlertsBetween(src, q, p) == MapAlerts(SelectSeq(SubSeq(src, q + 1, p - 1), IsAlertLine))
\* one record per closing line, with the alert lines since the closing line before
ExpectedRecords(src) ==
    [j \in 1..Cardinality(ClosingIdx(src)) |->
        LET p == NthClosing(src, j)
            q == IF j = 1 THEN 0 ELSE NthClosing(src, j - 1)
        IN [hour |-> src[p].f[1], alerts |-> AlertsBetween(src, q, p),
            totalAlerts |-> src[p].f[2], events |-> src[p].f[3],
            syscheck |-> src[p].f[4], firewall |-> src[p].f[5]]]
\* the first line that is neither an alert, a closing line nor skipped; 0 if none
FirstStop(src) ==
    LET stops == {i \in 1..Len(src) : src[i].kind \in {"fields", "badalert"}}
    IN IF stops = {} THEN 0 ELSE CHOOSE i \in stops : \A k \in stops : i <= k
TotalsCalled == totals_file.exists /\ totals_ret # NotCalled

(***************************************************************************)
(* get_daemons_stats_                                                      *)
(***************************************************************************)
\* A Python float as the exact decimal <<n, k>> = n / 10^k with k as small
\* as possible; <<1, -1>>, <<-1, -1>> and <<0, -1>> stand for inf, -inf and
\* nan.  Exact for the literals a double holds exactly as written.
RECURSIVE NormFloat(_, _)
NormFloat(n, k) == IF k > 0 /\ n % 10 = 0 THEN NormFloat(n \div 10, k - 1) ELSE <<n, k>>
RECURSIVE Pow10(_)
Pow10(e) == IF e = 0 THEN 1 ELSE 10 * Pow10(e - 1)
Lower(c) ==
    CASE c = "A" -> "a" [] c = "E" -> "e" [] c = "F" -> "f" [] c = "I" -> "i"
      [] c = "N" -> "n" [] c = "T" -> "t" [] c = "Y" -> "y" [] OTHER -> c
FloatInf == {<<"i", "n", "f">>, <<"i", "n", "f", "i", "n", "i", "t", "y">>}
FloatNan == <<"n", "a", "n">>

\* float(s) on ASCII text: surrounding whitespace, an optional sign, then
\* "inf", "infinity" or "nan" in any case, or a number: digits with an
\* optional '.', at least one digit in all, and an optional exponent of 'e',
\* a sign and digits; single underscores may separate digits; anything else
\* is a ValueError (ok = FALSE)
ParseFloat(s) ==
    LET t == Strip(s)
        signed == t # <<>> /\ t[1] \in {"+", "-"}
        neg == signed /\ t[1] = "-"
        raw == IF signed THEN Tail(t) ELSE t
        body == [i \in 1..Len(raw) |-> Lower(raw[i])]
        eparts == Split(body, <<"e">>)
        mparts == Split(eparts[1], <<".">>)
        ip == mparts[1]
        fp == IF Len(mparts) = 2 THEN mparts[2] ELSE <<>>
        ex == IF Len(eparts) = 2 THEN eparts[2] ELSE <<"0">>
        esigned == ex # <<>> /\ ex[1] \in {"+", "-"}
        ebody == IF esigned THEN Tail(ex) ELSE ex
        e == IF esigned /\ ex[1] = "-" THEN 0 - DigitsValue(GroupDigits(ebody))
             ELSE DigitsValue(GroupDigits(ebody))
        n == DigitsValue(GroupDigits(ip) \o GroupDigits(fp))
        k == Len(GroupDigits(fp)) - e
        mag == IF k < 0 THEN <<n * Pow10(0 - k), 0>> ELSE NormFloat(n, k)
    IN IF body \in FloatInf THEN [ok |-> TRUE, v |-> <<IF neg THEN 0 - 1 ELSE 1, 0 - 1>>]
       ELSE IF body = FloatNan THEN [ok |-> TRUE, v |-> <<0, 0 - 1>>]
       ELSE IF /\ Len(eparts) \in {1, 2} /\ Len(mparts) \in {1, 2}
               /\ ip = <<>> \/ DigitGroup(ip)
               /\ fp = <<>> \/ DigitGroup(fp)
               /\ Len(ip) + Len(fp) > 0
               /\ DigitGroup(ebody)
            THEN [ok |-> TRUE, v |-> IF neg THEN <<0 - mag[1], mag[2]>> ELSE mag]
            ELSE [ok |-> FALSE, v |-> <<0, 0>>]

\* s[:-1]
DropLast(s) == SubSeq(s, 1, Len(s) - 1)
\* s[1:-1]
Inner(s) == SubSeq(s, 2, Len(s) - 1)
Contains(s, c) == \E i \in 1..Len(s) : s[i] = c

DaemonsReturn(v) == [kind |-> "return", value |-> v]
\* line 166: the WazuhInternalError(1104) object is returned, not raised
InternalError1104 == [kind |-> "return_error", exc |-> "WazuhInternalError", code |-> 1104]
EmptyDict == [k \in {} |-> <<0, 0>>]

\* lines 161-166: the loop over the lines; an exception of the loop body
\* (IndexError of data[1], ValueError of float) ends the call at line 166
RECURSIVE DaemonsLoop(_, _, _)
DaemonsLoop(lines, i, items) ==
    IF i > Len(lines) THEN DaemonsReturn(<<items>>)
    ELSE LET line == lines[i]
         IN IF Len(line) # 1 /\ ~Contains(line, "#")
            THEN LET data == Split(DropLast(line), <<"=">>)
                     val == IF Len(data) >= 2 THEN ParseFloat(Inner(data[2]))
                            ELSE [ok |-> FALSE, v |-> <<0, 0>>]
                 IN IF val.ok
                    THEN DaemonsLoop(lines, i + 1, (data[1] :> val.v) @@ items)
                    ELSE InternalError1104
            ELSE DaemonsLoop(lines, i + 1, items)

\* lines 142-170
get_daemons_stats_(file) ==
    IF ~file.exists THEN Raise("WazuhError", 1308, <<>>)
    ELSE DaemonsLoop(ReadLines(file.text), 1, EmptyDict)

\* The lines a daemon's file is written from.
KV(key, val) == [kind |-> "kv", key |-> key, val |-> val]
RenderDaemonsLine(l) ==
    CASE l.kind = "kv" -> l.key \o <<"=", "\"">> \o l.val \o <<"\"">>
      [] l.kind = "comment" -> <<"#", " ">> \o l.key \o <<"=", "\"">> \o l.val \o <<"\"">>
      [] l.kind = "blank" -> <<>>
DaemonsLines ==
    { KV(<<"k">>, <<"1", ".", "5">>), KV(<<"k">>, <<"2">>),
      KV(<<"q", "s">>, <<"1", "0">>), KV(<<"q", "s">>, <<"0", ".", "2", "5">>),
      [kind |-> "comment", key |-> <<"k">>, val |-> <<"7">>],
      [kind |-> "blank", key |-> <<>>, val |-> <<>>] }

RenderDaemons(src, finalNL) ==
    RenderLines([i \in 1..Len(src) |-> RenderDaemonsLine(src[i])], finalNL)

DaemonsInit ==
    /\ daemons_src \in SeqsUpTo(DaemonsLines, MaxDaemonLines)
    /\ \/ \E nl \in BOOLEAN :
             daemons_file = [exists |-> TRUE,
                             text |-> RenderDaemons(daemons_src, nl)]
       \/ /\ daemons_src = <<>>
          /\ daemons_file = [exists |-> FALSE, text |-> <<>>]
    /\ daemons_ret = NotCalled

CallDaemons ==
    /\ daemons_ret = NotCalled
    /\ daemons_ret' = get_daemons_stats_(daemons_file)
    /\ UNCHANGED <<daemons_src, daemons_file>>
    /\ UNCHANGED <<totalsVars, avgVars, agentsVars, socketVars>>

NextDaemons == CallDaemons

(***************************************************************************)
(* The daemon's file as it was written, for the claim about                *)
(* get_daemons_stats_.                                                     *)
(***************************************************************************)
KeysOf(src) == {src[i].key : i \in {j \in 1..Len(src) : src[j].kind = "kv"}}
LastLineOf(src, key) ==
    CHOOSE i \in 1..Len(src) :
        /\ src[i].kind = "kv" /\ src[i].key = key
        /\ \A j \in (i + 1)..Len(src) : ~(src[j].kind = "kv" /\ src[j].key = key)
\* each key with the number between the quotes of its last line
ExpectedItems(src) == [key \in KeysOf(src) |-> ParseFloat(src[LastLineOf(src, key)].val).v]
DaemonsCalled == daemons_file.exists /\ daemons_ret # NotCalled
EndsWithNewline(text) == text # <<>> /\ text[Len(text)] = NL

(***************************************************************************)
(* hourly_ and weekly_                                                     *)
(***************************************************************************)
DAYS == <<"Sun", "Mon", "Tue", "Wed", "Thu", "Fri", "Sat">>
\* range(25): the files 0..24 of a directory
NFiles == 25
\* the file that holds the interactions
InteractionsFile == 24
\* range(7): the day directories 0..6
NDays == 7

\* A bucket file: hourly-average/<n> or weekly-average/<day>/<n>.
HourlyFile(n) == [dir |-> "hourly-average", day |-> 0, n |-> n]
WeeklyFile(d, n) == [dir |-> "weekly-average", day |-> d, n |-> n]
AllFiles == {HourlyFile(n) : n \in 0..(NFiles - 1)}
            \cup {WeeklyFile(d, n) : d \in 0..(NDays - 1), n \in 0..(NFiles - 1)}
\* the integer a bucket file holds when it is there
Stored(f) == IF f.dir = "hourly-average" THEN 3 * f.n + 1 ELSE 100 * (f.day + 1) + f.n

\* The stats directory: the files of 'odd' are missing, unreadable or hold
\* no integer, or they are the only files there.
FileState(odd, mode, f) ==
    CASE mode = "missing" -> IF f \in odd THEN "missing" ELSE "text"
      [] mode = "unreadable" -> IF f \in odd THEN "unreadable" ELSE "text"
      [] mode = "garbage" -> IF f \in odd THEN "garbage" ELSE "text"
      [] mode = "only" -> IF f \in odd THEN "text" ELSE "missing"
      [] OTHER -> "missing"
\* open(...).read(): an IOError (ok = FALSE) or the text of the file
OpenRead(odd, mode, f) ==
    LET st == FileState(odd, mode, f)
    IN CASE st = "text" -> [ok |-> TRUE, data |-> Dec(Stored(f)) \o <<NL>>]
         [] st = "garbage" -> [ok |-> TRUE, data |-> <<"x", NL>>]
         [] OTHER -> [ok |-> FALSE, data |-> <<>>]

AvgReturn(v) == [kind |-> "return", value |-> v]

\* lines 38-39 and 67-68: a bucket file that cannot be read
OnMissingBucket_skipped(hours) == hours
OnMissingBucket(hours) == Append(hours, 0)

\* lines 29-43: the loop over the files 0..24, then the return
RECURSIVE HourlyLoop(_, _, _, _, _)
HourlyLoop(odd, mode, i, averages, interactions) ==
    IF i >= NFiles
    THEN AvgReturn(<<[averages |-> averages, interactions |-> interactions]>>)
    ELSE LET r == OpenRead(odd, mode, HourlyFile(i))
             n == ParseInt(r.data)
         IN IF r.ok
            THEN IF ~n.ok THEN ValueError
                 ELSE IF i = InteractionsFile
                      THEN HourlyLoop(odd, mode, i + 1, averages, n.v)
                      ELSE HourlyLoop(odd, mode, i + 1, Append(averages, n.v), interactions)
            ELSE IF i < InteractionsFile
                 THEN HourlyLoop(odd, mode, i + 1, OnMissingBucket(averages), interactions)
                 ELSE HourlyLoop(odd, mode, i + 1, averages, 0)

\* lines 19-43
hourly_(odd, mode) == HourlyLoop(odd, mode, 0, <<>>, 0)

\* lines 58-71: the loop over the files 0..24 of day i, then the day's record
RECURSIVE WeeklyDayLoop(_, _, _, _, _, _)
WeeklyDayLoop(odd, mode, i, j, hours, interactions) ==
    IF j >= NFiles
    THEN [ok |-> TRUE,
          rec |-> (DAYS[i + 1] :> [hours |-> hours, interactions |-> interactions])]
    ELSE LET r == OpenRead(odd, mode, WeeklyFile(i, j))
             n == ParseInt(r.data)
         IN IF r.ok
            THEN IF ~n.ok THEN [ok |-> FALSE, rec |-> <<>>]
                 ELSE IF j = InteractionsFile
                      THEN WeeklyDayLoop(odd, mode, i, j + 1, hours, n.v)
                      ELSE WeeklyDayLoop(odd, mode, i, j + 1, Append(hours, n.v), interactions)
            ELSE IF j < InteractionsFile
                 THEN WeeklyDayLoop(odd, mode, i, j + 1, OnMissingBucket(hours), interactions)
                 ELSE WeeklyDayLoop(odd, mode, i, j + 1, hours, 0)

\* lines 55-73: the loop over the days 0..6, then the return
RECURSIVE WeeklyLoop(_, _, _, _)
WeeklyLoop(odd, mode, i, weekly_results) ==
    IF i >= NDays THEN AvgReturn(weekly_results)
    ELSE LET day == WeeklyDayLoop(odd, mode, i, 0, <<>>, 0)
         IN IF day.ok THEN WeeklyLoop(odd, mode, i + 1, Append(weekly_results, day.rec))
            ELSE ValueError

\* lines 46-73
weekly_(odd, mode) == WeeklyLoop(odd, mode, 0, <<>>)

\* the bucket files in path order: hourly-average/0..24, then
\* weekly-average/0/0..24, weekly-average/1/0..24, ...
FileAt(p) == IF p < NFiles THEN HourlyFile(p)
             ELSE WeeklyFile((p - NFiles) \div NFiles, (p - NFiles) % NFiles)
\* the runs of at most n files that follow each other in path order
RunsUpTo(n) ==
    {{FileAt(p) : p \in a..(a + len - 1)} :
        a \in 0..(Cardinality(AllFiles) - 1), len \in 0..n}
    \cap SUBSET AllFiles

AvgInit ==
    /\ avg_odd \in RunsUpTo(MaxRun)
    /\ avg_mode \in {"missing", "unreadable", "garbage", "only"}
    /\ hourly_ret = NotCalled
    /\ weekly_ret = NotCalled

CallHourly ==
    /\ avg_mode # "idle"
    /\ hourly_ret = NotCalled
    /\ hourly_ret' = hourly_(avg_odd, avg_mode)
    /\ UNCHANGED <<avg_odd, avg_mode, weekly_ret>>
    /\ UNCHANGED <<totalsVars, daemonsVars, agentsVars, socketVars>>

CallWeekly ==
    /\ avg_mode # "idle"
    /\ weekly_ret = NotCalled
    /\ weekly_ret' = weekly_(avg_odd, avg_mode)
    /\ UNCHANGED <<avg_odd, avg_mode, hourly_ret>>
    /\ UNCHANGED <<totalsVars, daemonsVars, agentsVars, socketVars>>

NextAvg == CallHourly \/ CallWeekly

(***************************************************************************)
(* The stats directory as it is, for the claim about hourly_ and weekly_.  *)
(***************************************************************************)
Readable(f) == FileState(avg_odd, avg_mode, f) = "text"
IntegerOrZero(f) == IF Readable(f) THEN Stored(f) ELSE 0
\* every bucket file is missing, unreadable or holds one integer
BucketsWellFormed == \A f \in AllFiles : FileState(avg_odd, avg_mode, f) # "garbage"
ExpectedHourly ==
    <<[averages |-> [i \in 1..InteractionsFile |-> IntegerOrZero(HourlyFile(i - 1))],
       interactions |-> IntegerOrZero(HourlyFile(InteractionsFile))]>>
ExpectedWeekly ==
    [d \in 1..NDays |->
        (DAYS[d] :> [hours |-> [j \in 1..InteractionsFile |->
                                   IntegerOrZero(WeeklyFile(d - 1, j - 1))],
                     interactions |-> IntegerOrZero(WeeklyFile(d - 1, InteractionsFile))])]

(***************************************************************************)
(* get_agents_component_stats_json_                                        *)
(***************************************************************************)
AgentIds == {"001", "002", "003"}
Component == "logcollector"

\* the classes 'except WazuhException' catches
IsWazuhException(e) ==
    e.exc \in {"WazuhException", "WazuhError", "WazuhInternalError", "WazuhResourceNotFound"}

\* agent.Agent(agent_id).get_stats(component): a payload, an exception of
\* the WazuhException family (the base class and each subclass, that of
\* line 200 included) or an exception outside it
StatsPayload(id) == [kind |-> "payload", agent |-> id, component |-> Component]
StatsOutcomes(id) ==
    { StatsPayload(id),
      Raise("WazuhException", 1000, <<>>),
      Raise("WazuhError", 1707, <<>>),
      Raise("WazuhInternalError", 2007, <<>>),
      Raise("WazuhResourceNotFound", 1701, <<>>),
      Raise("OSError", 0, <<>>) }

AgentsInit ==
    /\ agent_list \in SeqsUpTo(AgentIds, MaxAgents)
    /\ system_agents \in SUBSET AgentIds
    /\ a_pc = "loop"
    /\ a_i = 1
    /\ failed = <<>>
    /\ affected = <<>>
    /\ calls = <<>>

\* lines 198-203: one iteration of the loop; an exception of the body is
\* caught if it is a WazuhException and ends the call otherwise.  calls
\* records, per iteration, the ID, whether get_stats was called for it and
\* what the body of the try did.
Handle(id, fetched, r) ==
    /\ calls' = Append(calls, [id |-> id, fetched |-> fetched, res |-> r])
    /\ IF r.kind = "payload"
       THEN /\ affected' = Append(affected, r)
            /\ UNCHANGED failed
            /\ a_i' = a_i + 1 /\ a_pc' = "loop"
       ELSE IF IsWazuhException(r)
            THEN /\ failed' = Append(failed, <<id, r>>)
                 /\ UNCHANGED affected
                 /\ a_i' = a_i + 1 /\ a_pc' = "loop"
            ELSE /\ UNCHANGED <<failed, affected, a_i>>
                 /\ a_pc' = "raised"

\* lines 199-200: an agent_id that is not in the inventory
UnknownAgent_aborts ==
    /\ a_pc = "loop" /\ a_i <= Len(agent_list)
    /\ agent_list[a_i] \notin system_agents
    /\ calls' = Append(calls, [id |-> agent_list[a_i], fetched |-> FALSE,
                               res |-> Raise("WazuhResourceNotFound", 1701, <<>>)])
    /\ a_pc' = "raised"
    /\ UNCHANGED <<agent_list, system_agents, a_i, failed, affected>>
    /\ UNCHANGED <<totalsVars, daemonsVars, avgVars, socketVars>>
UnknownAgent ==
    /\ a_pc = "loop" /\ a_i <= Len(agent_list)
    /\ agent_list[a_i] \notin system_agents
    /\ Handle(agent_list[a_i], FALSE, Raise("WazuhResourceNotFound", 1701, <<>>))
    /\ UNCHANGED <<agent_list, system_agents>>
    /\ UNCHANGED <<totalsVars, daemonsVars, avgVars, socketVars>>

\* line 201: an agent_id of the inventory, whose stats are fetched
KnownAgent ==
    /\ a_pc = "loop" /\ a_i <= Len(agent_list)
    /\ agent_list[a_i] \in system_agents
    /\ \E r \in StatsOutcomes(agent_list[a_i]) : Handle(agent_list[a_i], TRUE, r)
    /\ UNCHANGED <<agent_list, system_agents>>
    /\ UNCHANGED <<totalsVars, daemonsVars, avgVars, socketVars>>

\* line 205
AgentsReturn ==
    /\ a_pc = "loop" /\ a_i > Len(agent_list)
    /\ a_pc' = "done"
    /\ UNCHANGED <<agent_list, system_agents, a_i, failed, affected, calls>>
    /\ UNCHANGED <<totalsVars, daemonsVars, avgVars, socketVars>>

NextAgents == UnknownAgent \/ KnownAgent \/ AgentsReturn

(***************************************************************************)
(* What happened at each position of agent_list, for the claim about       *)
(* get_agents_component_stats_json_.                                       *)
(***************************************************************************)
IsFailure(c) == c.res.kind = "raise"
IsSuccess(c) == c.res.kind = "payload"
RECURSIVE FailurePairs(_)
FailurePairs(cs) ==
    IF cs = <<>> THEN <<>> ELSE <<<<Head(cs).id, Head(cs).res>>>> \o FailurePairs(Tail(cs))
RECURSIVE Payloads(_)
Payloads(cs) == IF cs = <<>> THEN <<>> ELSE <<Head(cs).res>> \o Payloads(Tail(cs))
\* every stats call so far succeeded or raised a WazuhException
OnlyWazuhExceptions == \A i \in 1..Len(calls) : IsFailure(calls[i]) => IsWazuhException(calls[i].res)

(***************************************************************************)
(* get_daemons_stats_from_socket                                           *)
(***************************************************************************)
\* s.zfill(width): zeros on the left, after a leading sign
RECURSIVE Zeros(_)
Zeros(n) == IF n <= 0 THEN <<>> ELSE <<"0">> \o Zeros(n - 1)
Zfill(s, width) ==
    IF Len(s) >= width THEN s
    ELSE IF s # <<>> /\ s[1] \in {"+", "-"}
         THEN <<s[1]>> \o Zeros(width - Len(s)) \o Tail(s)
         ELSE Zeros(width - Len(s)) \o s

\* os.path.join(a, b)
PathJoin(a, b) ==
    IF b # <<>> /\ b[1] = "/" THEN b
    ELSE IF a = <<>> \/ a[Len(a)] = "/" THEN a \o b
    ELSE a \o <<"/">> \o b

\* line 226: <wazuh_path>/queue/sockets, written from wazuh_path
SocketsPath ==
    <<"q", "u", "e", "u", "e", "/", "s", "o", "c", "k", "e", "t", "s">>
RequestName ==
    <<"r", "e", "q", "u", "e", "s", "t">>
GetState ==
    <<"g", "e", "t", "s", "t", "a", "t", "e">>
AgentDaemon ==
    <<"a", "g", "e", "n", "t">>
RemotedDaemon ==
    <<"r", "e", "m", "o", "t", "e", "d">>

\* line 228: the target is the manager
IsManager(id) == Zfill(id, 3) = <<"0", "0", "0">>
\* line 236: the command for an agent
RemoteCommand_unpadded(id, dmn) == id \o <<" ">> \o dmn \o <<" ">> \o GetState
RemoteCommand(id, dmn) == Zfill(id, 3) \o <<" ">> \o dmn \o <<" ">> \o GetState

SocketReturn(v) == [kind |-> "return", value |-> v]
IOEvent(op, arg, ok) == [op |-> op, arg |-> arg, ok |-> ok]

(***************************************************************************)
(* The replies of the daemon, and json.loads on them.                      *)
(***************************************************************************)
\* {"data":{"status":"ok","last_ack":"2021-01-01 00:00:00"}}
ReplyState ==
    <<"{", "\"", "d", "a", "t", "a", "\"", ":", "{", "\"", "s", "t", "a",
      "t", "u", "s", "\"", ":", "\"", "o", "k", "\"", ",", "\"", "l", "a",
      "s", "t", "_", "a", "c", "k", "\"", ":", "\"", "2", "0", "2", "1",
      "-", "0", "1", "-", "0", "1", " ", "0", "0", ":", "0", "0", ":", "0",
      "0", "\"", "}", "}">>
\* {"data":{"status":"ok"}}
ReplyPlain ==
    <<"{", "\"", "d", "a", "t", "a", "\"", ":", "{", "\"", "s", "t", "a",
      "t", "u", "s", "\"", ":", "\"", "o", "k", "\"", "}", "}">>
\* {"data":{"last_keepalive":"never"}}
ReplyNever ==
    <<"{", "\"", "d", "a", "t", "a", "\"", ":", "{", "\"", "l", "a", "s",
      "t", "_", "k", "e", "e", "p", "a", "l", "i", "v", "e", "\"", ":",
      "\"", "n", "e", "v", "e", "r", "\"", "}", "}">>
\* {"data": {"last_ack": "n/a"}}
ReplyNotYet ==
    <<"{", "\"", "d", "a", "t", "a", "\"", ":", " ", "{", "\"", "l", "a",
      "s", "t", "_", "a", "c", "k", "\"", ":", " ", "\"", "n", "/", "a",
      "\"", "}", "}">>
\* {"error":1}
ReplyNoData ==
    <<"{", "\"", "e", "r", "r", "o", "r", "\"", ":", "1", "}">>
\* ERROR invalid target
ReplyError ==
    <<"E", "R", "R", "O", "R", " ", "i", "n", "v", "a", "l", "i", "d", " ",
      "t", "a", "r", "g", "e", "t">>
\* err
ReplyWord ==
    <<"e", "r", "r">>
TextOk ==
    <<"o", "k">>
TextStamp ==
    <<"2", "0", "2", "1", "-", "0", "1", "-", "0", "1", " ", "0", "0", ":",
      "0", "0", ":", "0", "0">>
TextNever ==
    <<"n", "e", "v", "e", "r">>
TextNA ==
    <<"n", "/", "a">>
ReplyEmpty == <<>>
Replies == {ReplyState, ReplyPlain, ReplyNever, ReplyNotYet, ReplyNoData,
            ReplyError, ReplyWord, ReplyEmpty}

JStr(s) == [t |-> "string", s |-> s]
JNum(n) == [t |-> "number", n |-> n]
JObj(m) == [t |-> "object", m |-> m]
JInvalid == [t |-> "invalid"]
\* json.loads(rec_msg) on the replies above; anything else is no JSON
JsonLoads(raw) ==
    CASE raw = ReplyState ->
            JObj("data" :> JObj(("status" :> JStr(TextOk)) @@ ("last_ack" :> JStr(TextStamp))))
      [] raw = ReplyPlain -> JObj("data" :> JObj("status" :> JStr(TextOk)))
      [] raw = ReplyNever -> JObj("data" :> JObj("last_keepalive" :> JStr(TextNever)))
      [] raw = ReplyNotYet -> JObj("data" :> JObj("last_ack" :> JStr(TextNA)))
      [] raw = ReplyNoData -> JObj("error" :> JNum(1))
      [] OTHER -> JInvalid

\* datetime.strptime(s, "%Y-%m-%d %H:%M:%S") on ASCII text; ok = FALSE is
\* its ValueError.  The text is matched whole against the format: a year of
\* four digits, a month and a day of one or two digits (the day also as a
\* space and one digit), a run of whitespace, and an hour, a minute and a
\* second of one or two digits.  The fields then build a datetime, which
\* takes years from 1, the days the month has and seconds up to 59.
DaysIn(y, m) ==
    IF m = 2 THEN (IF (y % 4 = 0 /\ y % 100 # 0) \/ y % 400 = 0 THEN 29 ELSE 28)
    ELSE IF m \in {4, 6, 9, 11} THEN 30 ELSE 31
\* The ASCII characters the regular expression class \s matches on a str:
\* those int() skips and the separators \x1c, \x1d, \x1e and \x1f.  The
\* space of the format is compiled to \s+.
RegexSpace == Whitespace \cup {"", "", "", ""}
CharAt(s, i) == IF i \in 1..Len(s) THEN s[i] ELSE ""
\* the length of the longest run of characters of set cs that starts at s[i]
RECURSIVE RunLen(_, _, _)
RunLen(s, i, cs) == IF CharAt(s, i) \in cs THEN 1 + RunLen(s, i + 1, cs) ELSE 0
Strptime(s) ==
    LET yLen == RunLen(s, 1, DigitSet)
        mAt == 6
        mLen == RunLen(s, mAt, DigitSet)
        dSep == mAt + mLen
        padded == CharAt(s, dSep + 1) = " "
        dAt == IF padded THEN dSep + 2 ELSE dSep + 1
        dLen == RunLen(s, dAt, DigitSet)
        gap == RunLen(s, dAt + dLen, RegexSpace)
        hAt == dAt + dLen + gap
        hLen == RunLen(s, hAt, DigitSet)
        miAt == hAt + hLen + 1
        miLen == RunLen(s, miAt, DigitSet)
        sAt == miAt + miLen + 1
        sLen == RunLen(s, sAt, DigitSet)
        num(at, len) == DigitsValue(SubSeq(s, at, at + len - 1))
        n == <<num(1, 4), num(mAt, mLen), num(dAt, dLen),
               num(hAt, hLen), num(miAt, miLen), num(sAt, sLen)>>
        matched == /\ yLen = 4 /\ CharAt(s, 5) = "-"
                   /\ mLen \in {1, 2} /\ CharAt(s, dSep) = "-"
                   /\ dLen \in (IF padded THEN {1} ELSE {1, 2})
                   /\ gap >= 1
                   /\ hLen \in {1, 2} /\ CharAt(s, hAt + hLen) = ":"
                   /\ miLen \in {1, 2} /\ CharAt(s, miAt + miLen) = ":"
                   /\ sLen \in {1, 2} /\ sAt + sLen - 1 = Len(s)
                   /\ n[2] \in 1..12 /\ n[3] \in 1..31
                   /\ n[4] \in 0..23 /\ n[5] \in 0..59 /\ n[6] \in 0..61
    IN IF /\ matched
          /\ n[1] >= 1 /\ n[3] <= DaysIn(n[1], n[2]) /\ n[6] <= 59
       THEN [ok |-> TRUE, dt |-> n]
       ELSE [ok |-> FALSE, dt |-> <<>>]
\* dt.strftime(common.date_format): the date in the platform's format
JDate(dt) == [t |-> "date", dt |-> dt]

TimestampKeys == {"last_keepalive", "last_ack"}
\* lines 257-260: the decoded payload, or ok = FALSE when json.loads, the
\* ['data'] lookup, data.items() or strptime raises
Decode(raw) ==
    LET j == JsonLoads(raw)
        hasData == j.t = "object" /\ "data" \in DOMAIN j.m
        data == j.m["data"]
        isDict == hasData /\ data.t = "object"
        stamps == DOMAIN data.m \cap TimestampKeys
    IN IF /\ isDict
          /\ \A k \in stamps : data.m[k].t = "string" /\ Strptime(data.m[k].s).ok
       THEN [ok |-> TRUE,
             data |-> [k \in DOMAIN data.m |->
                          IF k \in stamps THEN JDate(Strptime(data.m[k].s).dt)
                          ELSE data.m[k]]]
       ELSE [ok |-> FALSE, data |-> <<>>]

\* lines 262-263: what the except branch ends the call with
FormatError(raw) ==
    LET parts == SplitOnce(raw, <<" ">>)
    IN IF Len(parts) < 2 THEN Raise("IndexError", 0, <<>>)
       ELSE Raise("WazuhError", 1117, parts[2])

\* line 251: "Data could not be received"
DataNotReceived ==
    <<"D", "a", "t", "a", " ", "c", "o", "u", "l", "d", " ", "n", "o", "t", " ",
      "b", "e", " ", "r", "e", "c", "e", "i", "v", "e", "d">>

AgentIdArgs ==
    { <<>>, <<"0">>, <<"0", "0">>, <<"0", "0", "0">>, <<"0", "0", "0", "0">>,
      <<"1">>, <<"0", "1">>, <<"0", "0", "1">>, <<"1", "2">>, <<"1", "2", "3", "4">> }
DaemonArgs == {<<>>, AgentDaemon, RemotedDaemon}

SocketInit ==
    /\ pc = "start"
    /\ agent_id \in AgentIdArgs
    /\ daemon \in DaemonArgs
    /\ dest_socket = <<>>
    /\ command = <<>>
    /\ sock = "none"
    /\ io = <<>>
    /\ rec_msg = <<>>
    /\ outcome = NotCalled

\* lines 223-236: the checks of the arguments, the destination and the command
Validate ==
    /\ pc = "start"
    /\ IF agent_id = <<>> \/ daemon = <<>>
       THEN /\ outcome' = Raise("WazuhError", 1307, <<>>)
            /\ pc' = "done"
            /\ UNCHANGED <<dest_socket, command>>
       ELSE IF IsManager(agent_id)
            THEN IF daemon = AgentDaemon
                 THEN /\ outcome' = Raise("WazuhError", 1310, <<>>)
                      /\ pc' = "done"
                      /\ UNCHANGED <<dest_socket, command>>
                 ELSE /\ dest_socket' = PathJoin(SocketsPath, daemon)
                      /\ command' = GetState
                      /\ pc' = "connect"
                      /\ UNCHANGED outcome
            ELSE /\ dest_socket' = PathJoin(SocketsPath, RequestName)
                 /\ command' = RemoteCommand(agent_id, daemon)
                 /\ pc' = "connect"
                 /\ UNCHANGED outcome
    /\ UNCHANGED <<agent_id, daemon, sock, io, rec_msg>>
    /\ UNCHANGED <<totalsVars, daemonsVars, avgVars, agentsVars>>

\* lines 239-242: WazuhSocket(dest_socket) connects or raises
Connect_beforeChecks ==
    /\ pc \in {"start", "connect"} /\ sock = "none"
    /\ sock' = "open"
    /\ io' = Append(io, IOEvent("open", dest_socket, TRUE))
    /\ pc' = IF pc = "start" THEN "start" ELSE "send"
    /\ UNCHANGED <<agent_id, daemon, dest_socket, command, rec_msg, outcome>>
    /\ UNCHANGED <<totalsVars, daemonsVars, avgVars, agentsVars>>
Connect ==
    /\ pc = "connect"
    /\ \/ /\ sock' = "open"
          /\ io' = Append(io, IOEvent("open", dest_socket, TRUE))
          /\ pc' = "send"
          /\ UNCHANGED outcome
       \/ /\ io' = Append(io, IOEvent("open", dest_socket, FALSE))
          /\ outcome' = Raise("WazuhInternalError", 1121, <<>>)
          /\ pc' = "done"
          /\ UNCHANGED sock
    /\ UNCHANGED <<agent_id, daemon, dest_socket, command, rec_msg>>
    /\ UNCHANGED <<totalsVars, daemonsVars, avgVars, agentsVars>>

\* line 245: s.send(command.encode()) sends or raises; nothing catches
Send ==
    /\ pc = "send"
    /\ \/ /\ io' = Append(io, IOEvent("send", command, TRUE))
          /\ pc' = "receive"
          /\ UNCHANGED outcome
       \/ /\ io' = Append(io, IOEvent("send", command, FALSE))
          /\ outcome' = Raise("WazuhException", 1014, <<>>)
          /\ pc' = "done"
    /\ UNCHANGED <<agent_id, daemon, dest_socket, command, sock, rec_msg>>
    /\ UNCHANGED <<totalsVars, daemonsVars, avgVars, agentsVars>>

\* lines 248-251: s.receive().decode() gives the reply, raises a ValueError
\* (error 1118), either in receive or, the bytes received, in decode, or
\* raises something else, which nothing catches
Receive ==
    /\ pc = "receive"
    /\ \/ \E r \in Replies :
             /\ rec_msg' = r
             /\ io' = Append(io, IOEvent("receive", <<>>, TRUE))
             /\ pc' = "close"
             /\ UNCHANGED outcome
       \/ \E received \in BOOLEAN :
          /\ io' = Append(io, IOEvent("receive", <<>>, received))
          /\ outcome' = Raise("WazuhInternalError", 1118, DataNotReceived)
          /\ pc' = "done"
          /\ UNCHANGED rec_msg
       \/ /\ io' = Append(io, IOEvent("receive", <<>>, FALSE))
          /\ outcome' = Raise("WazuhException", 1014, <<>>)
          /\ pc' = "done"
          /\ UNCHANGED rec_msg
    /\ UNCHANGED <<agent_id, daemon, dest_socket, command, sock>>
    /\ UNCHANGED <<totalsVars, daemonsVars, avgVars, agentsVars>>

\* line 253: s.close()
Close ==
    /\ pc = "close"
    /\ sock' = "closed"
    /\ io' = Append(io, IOEvent("close", <<>>, TRUE))
    /\ pc' = "format"
    /\ UNCHANGED <<agent_id, daemon, dest_socket, command, rec_msg, outcome>>
    /\ UNCHANGED <<totalsVars, daemonsVars, avgVars, agentsVars>>

\* lines 256-263: the reply decoded and returned, or the except branch
Format ==
    /\ pc = "format"
    /\ outcome' = IF Decode(rec_msg).ok THEN SocketReturn(Decode(rec_msg).data)
                  ELSE FormatError(rec_msg)
    \* line 262 rebinds rec_msg before the raise, unless the split has no
    \* second part and the subscript raises first
    /\ rec_msg' = IF ~Decode(rec_msg).ok /\ Len(SplitOnce(rec_msg, <<" ">>)) = 2
                  THEN SplitOnce(rec_msg, <<" ">>)[2]
                  ELSE rec_msg
    /\ pc' = "done"
    /\ UNCHANGED <<agent_id, daemon, dest_socket, command, sock, io>>
    /\ UNCHANGED <<totalsVars, daemonsVars, avgVars, agentsVars>>

NextSocket == Validate \/ Connect \/ Send \/ Receive \/ Close \/ Format

(***************************************************************************)
(* The socket operations of a call, for the claims about                   *)
(* get_daemons_stats_from_socket.                                          *)
(***************************************************************************)
OpsOf(kind) == {i \in 1..Len(io) : io[i].op = kind}
Opened == \E i \in OpsOf("open") : io[i].ok
Ended == pc = "done"
ZeroDigits(s) == \A i \in 1..Len(s) : s[i] = "0"
\* the arguments name the manager: at most 3 characters, all of them '0'
NamesManager(id) == id # <<>> /\ Len(id) <= 3 /\ ZeroDigits(id)
InvalidArgs == agent_id = <<>> \/ daemon = <<>>
Unsupported == ~InvalidArgs /\ NamesManager(agent_id) /\ daemon = AgentDaemon
Accepted == ~InvalidArgs /\ ~Unsupported
\* agent_id with zeros on its left up to 3 characters
LeftPadded(id) == IF Len(id) >= 3 THEN id ELSE Zeros(3 - Len(id)) \o id
ExpectedCommand ==
    IF NamesManager(agent_id) THEN GetState
    ELSE LeftPadded(agent_id) \o <<" ">> \o daemon \o <<" ">> \o GetState
ExpectedSocket ==
    IF NamesManager(agent_id) THEN SocketsPath \o <<"/">> \o daemon
    ELSE SocketsPath \o <<"/">> \o RequestName
\* the part of the reply after its first space
AfterFirstSpace(raw) ==
    LET i == CHOOSE k \in 1..Len(raw) : raw[k] = " " /\ \A j \in 1..(k - 1) : raw[j] # " "
    IN SubSeq(raw, i + 1, Len(raw))

InitTotals == TotalsInit /\ DaemonsIdle /\ AvgIdle /\ AgentsIdle /\ SocketIdle
SpecTotals == InitTotals /\ [][NextTotals]_vars

\* C3: when the first line that stops the parse is a malformed line (a line
\* that is no alert line and whose split on '--' gives 2, 3, 4 or 6 fields),
\* totals_ returns (True, records) without raising, the records being those
\* closed by the 5-field lines strictly before that line, in file order.
C3_MalformedStopsWithPartial ==
    (TotalsCalled /\ FirstStop(totals_src) # 0
        /\ totals_src[FirstStop(totals_src)].kind = "fields")
    => totals_ret = TotalsReturn(TRUE,
                        ExpectedRecords(SubSeq(totals_src, 1, FirstStop(totals_src) - 1)))
\* a malformed line is met after a closed hour record and before another
\* closing line: one record is returned with the flag set
C3_Witness ==
    /\ TotalsCalled /\ Len(totals_src) >= 3
    /\ totals_src[1].kind = "closing" /\ totals_src[2].kind = "fields"
    /\ totals_src[3].kind = "closing"
    /\ totals_ret.kind = "return" /\ totals_ret.failed
    /\ Len(totals_ret.affected) = 1

\* C4: on a log made only of alert lines, 5-field closing lines and blank
\* lines, totals_ returns failed = False and one record per closing line in
\* file order, the alerts of a record being the alert lines between the
\* closing line before (or the start of the file) and its own closing line;
\* alert lines after the last closing line are in no record.
C4_WellFormedGroups ==
    (TotalsCalled /\ KindsOf(totals_src) \subseteq {"alert", "closing", "blank"})
    => totals_ret = TotalsReturn(FALSE, ExpectedRecords(totals_src))
\* two hours, the first with an alert line and the second with another
C4_Witness ==
    /\ TotalsCalled /\ Len(totals_src) = 4
    /\ totals_src[1].kind = "alert" /\ totals_src[2].kind = "closing"
    /\ totals_src[3].kind = "alert" /\ totals_src[4].kind = "closing"
    /\ totals_src[1] # totals_src[3]
    /\ totals_ret.kind = "return" /\ ~totals_ret.failed
    /\ Len(totals_ret.affected) = 2
    /\ totals_ret.affected[2].alerts = <<AlertOf(totals_src[3])>>

\* C10: whenever totals_ returns on a log that can be opened, the flag it
\* returns is False, as its docstring states (lines 84-88).
C10_FlagAlwaysFalse ==
    (TotalsCalled /\ totals_ret.kind = "return") => totals_ret.failed = FALSE

InitDaemons == DaemonsInit /\ TotalsIdle /\ AvgIdle /\ AgentsIdle /\ SocketIdle
SpecDaemons == InitDaemons /\ [][NextDaemons]_vars

\* C9 as stated: for every readable file of key="value" lines, comment lines
\* and blank lines, get_daemons_stats_ returns a one-element list holding the
\* mapping of each key to the number between the quotes of that key's last
\* line, whether or not the file ends with a newline.
C9_LastValuePerKey ==
    DaemonsCalled
    => /\ daemons_ret.kind = "return"
       /\ daemons_ret = DaemonsReturn(<<ExpectedItems(daemons_src)>>)
\* The same restricted to the files whose last line ends with a newline
\* (and the empty file), where the code agrees with the claim.
C9_LastValuePerKey_NewlineTerminated ==
    (DaemonsCalled /\ (daemons_file.text = <<>> \/ EndsWithNewline(daemons_file.text)))
    => /\ daemons_ret.kind = "return"
       /\ daemons_ret = DaemonsReturn(<<ExpectedItems(daemons_src)>>)
InitAvg == AvgInit /\ TotalsIdle /\ DaemonsIdle /\ AgentsIdle /\ SocketIdle
SpecAvg == InitAvg /\ [][NextAvg]_vars

\* C8: whatever bucket files are missing or unreadable (the others holding
\* one integer each), hourly_ returns one record whose 'averages' has 24
\* entries, entry i being the integer of file i or 0, and whose
\* 'interactions' is the integer of file 24 or 0; weekly_ returns 7 records
\* in the order Sun..Sat, each with 24 'hours' built the same way from the
\* files of its own day only.
C8_ZeroFilledAverages ==
    BucketsWellFormed =>
        /\ hourly_ret # NotCalled =>
              /\ hourly_ret = AvgReturn(ExpectedHourly)
              /\ Len(hourly_ret.value[1].averages) = 24
        /\ weekly_ret # NotCalled =>
              /\ weekly_ret = AvgReturn(ExpectedWeekly)
              /\ Len(weekly_ret.value) = 7
              /\ \A d \in 1..7 : Len(weekly_ret.value[d][DAYS[d]].hours) = 24
\* one file of Wednesday is missing: its entry is 0, its neighbours and the
\* same hour of Thursday are not, and hourly_ has returned too
C8_Witness ==
    /\ avg_mode = "missing" /\ avg_odd = {WeeklyFile(3, 5)}
    /\ weekly_ret # NotCalled /\ hourly_ret # NotCalled
    /\ weekly_ret.value[4]["Wed"].hours[6] = 0
    /\ weekly_ret.value[4]["Wed"].hours[5] = 404
    /\ weekly_ret.value[5]["Thu"].hours[6] = 505
    /\ hourly_ret.value[1].averages[24] = 70
InitAgents == AgentsInit /\ TotalsIdle /\ DaemonsIdle /\ AvgIdle /\ SocketIdle
SpecAgents == InitAgents /\ [][NextAgents]_vars

\* C2: when every per-agent stats call succeeds or raises a WazuhException,
\* the call is never ended by a failure and returns with one entry per
\* position of agent_list, in input order: (agent_id, error) in 'failed' for
\* an ID that is not in the inventory (error 1701, its stats never fetched)
\* or whose stats call raised, whatever WazuhException it raised, the
\* payload in 'affected' otherwise.
C2_EveryAgentAccounted ==
    OnlyWazuhExceptions =>
        /\ a_pc # "raised"
        /\ Len(failed) + Len(affected) = Len(calls)
        /\ a_pc = "done" =>
              /\ Len(calls) = Len(agent_list)
              /\ \A i \in 1..Len(calls) :
                    /\ calls[i].id = agent_list[i]
                    /\ agent_list[i] \notin system_agents
                         => /\ ~calls[i].fetched
                            /\ calls[i].res = Raise("WazuhResourceNotFound", 1701, <<>>)
                    /\ agent_list[i] \in system_agents => calls[i].fetched
              /\ failed = FailurePairs(SelectSeq(calls, IsFailure))
              /\ affected = Payloads(SelectSeq(calls, IsSuccess))
\* an unknown ID first, then an ID of the inventory whose stats call raised
\* WazuhResourceNotFound, then a success
C2_Witness ==
    /\ a_pc = "done" /\ Len(agent_list) = 3
    /\ agent_list[1] \notin system_agents
    /\ agent_list[2] \in system_agents
    /\ Len(failed) = 2 /\ failed[1][1] = agent_list[1] /\ failed[1][2].code = 1701
    /\ failed[2][1] = agent_list[2] /\ failed[2][2].exc = "WazuhResourceNotFound"
    /\ affected = <<StatsPayload(agent_list[3])>>
InitSocket == SocketInit /\ TotalsIdle /\ DaemonsIdle /\ AvgIdle /\ AgentsIdle
SpecSocket == InitSocket /\ [][NextSocket]_vars

\* C1: a call of get_daemons_stats_from_socket that opened the socket has
\* closed it when it returns or raises, on every exit path.
C1_SocketClosedOnExit == (Ended /\ Opened) => sock = "closed"

\* C5: a call rejected for invalid parameters (error 1307) or for an
\* unsupported target (error 1310) has performed no socket operation; the
\* calls with an empty agent_id or daemon end with 1307, those that name
\* the manager and the daemon 'agent' with 1310.
C5_RejectedBeforeIO ==
    /\ (outcome.kind = "raise" /\ outcome.code \in {1307, 1310})
         => (io = <<>> /\ sock = "none")
    /\ (Ended /\ InvalidArgs) => (outcome = Raise("WazuhError", 1307, <<>>) /\ io = <<>>)
    /\ (Ended /\ Unsupported) => (outcome = Raise("WazuhError", 1310, <<>>) /\ io = <<>>)
    /\ InvalidArgs \/ Unsupported => sock = "none"
\* agent_id '0' with the daemon 'agent' was rejected with 1310
C5_Witness ==
    /\ Ended /\ agent_id = <<"0">> /\ daemon = AgentDaemon
    /\ outcome.kind = "raise" /\ outcome.code = 1310

\* C6: a received reply whose decoding fails ends the call with error 1117
\* whose message is the part of the reply after its first space.  The reply
\* is what rec_msg holds when the call comes to format it; the step that
\* formats it may rebind rec_msg, so the property is one of that step.
C6_DecodeFailureGives1117 ==
    [][(pc = "format" /\ ~Decode(rec_msg).ok)
       => /\ outcome'.kind = "raise" /\ outcome'.exc = "WazuhError"
          /\ outcome'.code = 1117
          /\ outcome'.msg = AfterFirstSpace(rec_msg)]_vars

\* C7 as stated: every accepted call sends exactly one command, before its
\* single receive.
C7_ExactlyOneSend ==
    (Ended /\ Accepted)
    => /\ Cardinality(OpsOf("send")) = 1
       /\ Cardinality(OpsOf("receive")) = 1
       /\ \A i \in OpsOf("send"), j \in OpsOf("receive") : i < j
\* C7 amended: an accepted call whose socket opened sends exactly one
\* command, the literal 'getstate' to the daemon's socket when agent_id
\* names the manager and '<agent_id padded to 3> <daemon> getstate' to the
\* 'request' socket otherwise; it receives at most once, only after that
\* send succeeded, and exactly once if it did; a call whose socket did not
\* open sends and receives nothing.
C7_OneSendAfterOpen ==
    /\ Cardinality(OpsOf("open")) <= 1
    /\ Cardinality(OpsOf("send")) <= 1
    /\ Cardinality(OpsOf("receive")) <= 1
    /\ \A i \in OpsOf("open") : i = 1 /\ io[i].arg = ExpectedSocket
    /\ \A i \in OpsOf("send") : i = 2 /\ io[1].ok /\ io[i].arg = ExpectedCommand
    /\ \A i \in OpsOf("receive") : i = 3 /\ io[2].op = "send" /\ io[2].ok
    /\ (Ended /\ Accepted) =>
          /\ Cardinality(OpsOf("open")) = 1
          /\ Cardinality(OpsOf("send")) = (IF io[1].ok THEN 1 ELSE 0)
          /\ Cardinality(OpsOf("receive")) = (IF Len(io) >= 2 /\ io[2].ok THEN 1 ELSE 0)
\* agent_id '1' and the daemon 'remoted': '001 remoted getstate' was sent
\* to the request socket, then the reply was received
C7_Witness ==
    /\ Ended /\ agent_id = <<"1">> /\ daemon = RemotedDaemon
    /\ Len(io) = 4
    /\ io[2] = IOEvent("send", <<"0", "0", "1", " ">> \o RemotedDaemon \o <<" ">> \o GetState, TRUE)
    /\ io[1].arg = SocketsPath \o <<"/">> \o RequestName
    /\ io[3].op = "receive" /\ io[3].ok
====
